---- MODULE Spec2Model ----
(***************************************************************************)
(* A model of the User class of wysknd-identity (lib/user.js): the         *)
(* constructor's dispatch, validation and field adoption, the username and *)
(* roles accessors and hasRole, over a JavaScript heap in which arrays and *)
(* objects are reached through references, so that aliasing between the    *)
(* caller's objects and the User's is visible.                             *)
(***************************************************************************)
EXTENDS Integers, Sequences, FiniteSets

(***************************************************************************)
(* Bounds of the model.                                                    *)
(***************************************************************************)
\* longest array the caller builds (roles arrays, query arrays, lists)
MaxLen == 2
\* number of mutations the caller performs after the constructor returned
MaxMutations == 1

(***************************************************************************)
(* JavaScript values.  A string carries its characters in s, so that       *)
(* .length is the length of s; a number or boolean carries n; a reference  *)
(* carries the heap address of an array or of a plain object in n.         *)
(***************************************************************************)
V(t, s, n) == [t |-> t, s |-> s, n |-> n]

Undefined == V("undefined", <<>>, 0)
Null      == V("null", <<>>, 0)
Str(s)    == V("string", s, 0)
Num(n)    == V("number", <<>>, n)
Bool(b)   == V("boolean", <<>>, IF b THEN 1 ELSE 0)
Func(s)   == V("function", s, 0)
Ref(a)    == V("ref", <<>>, a)
\* not a value: marks a property an object does not have
Absent    == V("absent", <<>>, 0)

\* property names the model uses
Names == {"username", "_username", "roles", "_roles", "hasRole", "foo", "meta"}
NameSeq == <<"username", "_username", "roles", "_roles", "hasRole", "foo", "meta">>

NoFields == [k \in Names |-> Absent]
ArrayObj(elems) == [kind |-> "array", elems |-> elems, fields |-> NoFields]
PlainObj(fields) == [kind |-> "object", elems |-> <<>>, fields |-> fields]

(***************************************************************************)
(* The operators of the language the class uses.                           *)
(***************************************************************************)
TypeOf(v) ==
    IF v.t \in {"null", "ref"} THEN "object" ELSE v.t

InstanceOfArray(h, v) ==
    v.t = "ref" /\ h[v.n].kind = "array"

\* !v
Falsy(v) ==
    \/ v.t \in {"undefined", "null"}
    \/ v.t = "number" /\ v.n = 0
    \/ v.t = "string" /\ Len(v.s) = 0
    \/ v.t = "boolean" /\ v.n = 0

\* o[k] for a non-null object o
GetProp(h, o, k) ==
    IF h[o.n].fields[k] = Absent THEN Undefined ELSE h[o.n].fields[k]

\* array.indexOf(x) >= 0: strict equality with some element
Includes(elems, x) ==
    \E i \in 1..Len(elems) : elems[i] = x

(***************************************************************************)
(* _clone: a deep copy.  Arrays and plain objects are copied into fresh    *)
(* heap cells, element by element and field by field; every other value is *)
(* returned as it is.  The result is the new heap and the copy.            *)
(***************************************************************************)
RECURSIVE CloneValue(_, _)
RECURSIVE CloneElems(_, _, _, _)
RECURSIVE CloneFields(_, _, _, _)

CloneElems(h, src, i, acc) ==
    IF i > Len(src) THEN [h |-> h, elems |-> acc]
    ELSE LET c == CloneValue(h, src[i])
         IN  CloneElems(c.h, src, i + 1, Append(acc, c.v))

CloneFields(h, src, i, acc) ==
    IF i > Len(NameSeq) THEN [h |-> h, fields |-> acc]
    ELSE LET k == NameSeq[i]
             c == CloneValue(h, src[k])
         IN  CloneFields(c.h, src, i + 1, [acc EXCEPT ![k] = c.v])

CloneValue(h, v) ==
    IF v.t # "ref" THEN [h |-> h, v |-> v]
    ELSE IF h[v.n].kind = "array"
         THEN LET c == CloneElems(h, h[v.n].elems, 1, <<>>)
              IN  [h |-> Append(c.h, ArrayObj(c.elems)), v |-> Ref(Len(c.h) + 1)]
         ELSE LET c == CloneFields(h, h[v.n].fields, 1, NoFields)
              IN  [h |-> Append(c.h, PlainObj(c.fields)), v |-> Ref(Len(c.h) + 1)]

_clone(h, v) == CloneValue(h, v)

(***************************************************************************)
(* The constructor.                                                        *)
(***************************************************************************)
\* the reserved names without the method's
ReservedFieldsOnly == {"_username", "username", "roles", "_roles"}

RESERVED_KEYWORDS == {"_username", "username", "roles", "_roles", "hasRole"}

ErrInvalidRoles == "Invalid roles specified (arg #2)"
ErrInvalidUserData == "Invalid user data specified (arg #1). Must be a string or object."
ErrInvalidUsername == "User data does not define a valid username (user.username)"
ErrInvalidRolesField == "User data does not define valid roles (user.roles)"
\* assigning to username or roles of a User: the class defines getters only
ErrTypeError == "TypeError: Cannot set property which has only a getter"
NoError == ""

Threw(h, e) == [error |-> e, this |-> NoFields, h |-> h]

\* props replaced by {} whatever it is
NormalizePropsAlways(h, props) ==
    [h |-> Append(h, PlainObj(NoFields)), v |-> Ref(Len(h) + 1)]

\* props, or a fresh {} when props is not a non-array object
NormalizeProps(h, props) ==
    IF Falsy(props) \/ InstanceOfArray(h, props) \/ TypeOf(props) # "object"
    THEN [h |-> Append(h, PlainObj(NoFields)), v |-> Ref(Len(h) + 1)]
    ELSE [h |-> h, v |-> props]

\* the names the for-in loop assigns to this
Adopted(fields) ==
    {k \in Names : fields[k] # Absent /\ k \notin RESERVED_KEYWORDS}

\* this._roles = user.roles, without the copy
KeepRoles(h, rolesValue) == [h |-> h, v |-> rolesValue]

\* this._roles = _clone(user.roles)
CopyRoles(h, rolesValue) == _clone(h, rolesValue)

\* lines 44-51: the for-in loop, then _username and _roles
Adopt(h, user) ==
    LET fields == h[user.n].fields
        own == [k \in Names |-> IF k \in Adopted(fields) THEN fields[k] ELSE Absent]
        c == CopyRoles(h, GetProp(h, user, "roles"))
    IN  IF Adopted(fields) \cap {"username", "roles"} # {}
        THEN Threw(h, ErrTypeError)
        ELSE [error |-> NoError,
              this |-> [own EXCEPT !["_username"] = GetProp(h, user, "username"),
                                   !["_roles"] = c.v],
              h |-> c.h]

ValidUsername(v) == TypeOf(v) = "string" /\ ~(Len(v.s) <= 0)

\* validation that tests roles before username
ValidateRolesFirst(h, user) ==
    IF ~InstanceOfArray(h, GetProp(h, user, "roles"))
    THEN Threw(h, ErrInvalidRolesField)
    ELSE IF ~ValidUsername(GetProp(h, user, "username"))
         THEN Threw(h, ErrInvalidUsername)
         ELSE Adopt(h, user)

\* lines 37-42
Validate(h, user) ==
    IF ~ValidUsername(GetProp(h, user, "username"))
    THEN Threw(h, ErrInvalidUsername)
    ELSE IF ~InstanceOfArray(h, GetProp(h, user, "roles"))
         THEN Threw(h, ErrInvalidRolesField)
         ELSE Adopt(h, user)

\* lines 25-31: the working record of the positional form
FromParts(h, username, roles, props) ==
    LET p == NormalizeProps(h, props)
        c == _clone(p.h, p.v)
    IN  [h |-> [c.h EXCEPT ![c.v.n].fields["username"] = username,
                           ![c.v.n].fields["roles"] = roles],
         v |-> c.v]

\* the constructor without the test that rejects an array as user
ConstructArrayAsRecord(h, user, roles, props) ==
    IF TypeOf(user) = "string"
    THEN IF ~InstanceOfArray(h, roles)
         THEN Threw(h, ErrInvalidRoles)
         ELSE LET w == FromParts(h, user, roles, props)
              IN  Validate(w.h, w.v)
    ELSE IF Falsy(user) \/ TypeOf(user) # "object"
         THEN Threw(h, ErrInvalidUserData)
         ELSE Validate(h, user)

\* the constructor testing the roles argument after the username
ConstructUsernameFirst(h, user, roles, props) ==
    IF TypeOf(user) = "string"
    THEN IF ~ValidUsername(user)
         THEN Threw(h, ErrInvalidUsername)
         ELSE IF ~InstanceOfArray(h, roles)
              THEN Threw(h, ErrInvalidRoles)
              ELSE LET w == FromParts(h, user, roles, props)
                   IN  Validate(w.h, w.v)
    ELSE IF Falsy(user) \/ InstanceOfArray(h, user) \/ TypeOf(user) # "object"
         THEN Threw(h, ErrInvalidUserData)
         ELSE Validate(h, user)

Construct(h, user, roles, props) ==
    IF TypeOf(user) = "string"
    THEN IF ~InstanceOfArray(h, roles)
         THEN Threw(h, ErrInvalidRoles)
         ELSE LET w == FromParts(h, user, roles, props)
              IN  Validate(w.h, w.v)
    ELSE IF Falsy(user) \/ InstanceOfArray(h, user) \/ TypeOf(user) # "object"
         THEN Threw(h, ErrInvalidUserData)
         ELSE Validate(h, user)

(***************************************************************************)
(* The accessors and hasRole.                                              *)
(***************************************************************************)
\* get username()
username(this) == this["_username"]

\* get roles()
roles(this) == this["_roles"]

\* reading property k of a User: an own property, else what the class defines
Get(this, k) ==
    IF this[k] # Absent THEN this[k]
    ELSE IF k = "username" THEN username(this)
    ELSE IF k = "roles" THEN roles(this)
    ELSE IF k = "hasRole" THEN Func(<<"hasRole">>)
    ELSE Undefined

\* lines 84-86 and 88: the roles the loop visits; none when the argument is
\* neither a string nor an array
Queried(h, q) ==
    IF TypeOf(q) = "string" THEN <<q>>
    ELSE IF InstanceOfArray(h, q) THEN h[q.n].elems
    ELSE <<>>

\* hasRole requiring every queried role to be held
hasRoleEvery(h, this, q) ==
    LET visited == Queried(h, q)
    IN  [error |-> NoError,
         value |-> Len(visited) > 0 /\ \A index \in 1..Len(visited) :
                       Includes(h[this["_roles"].n].elems, visited[index])]

\* hasRole without the instanceof Array test: reads .length of its argument
hasRoleUnguarded(h, this, q) ==
    LET visited == Queried(h, q)
    IN  IF q.t \in {"undefined", "null"}
        THEN [error |-> ErrTypeError, value |-> FALSE]
        ELSE [error |-> NoError,
              value |-> \E index \in 1..Len(visited) :
                            Includes(h[this["_roles"].n].elems, visited[index])]

hasRole(h, this, q) ==
    LET visited == Queried(h, q)
    IN  [error |-> NoError,
         value |-> \E index \in 1..Len(visited) :
                       Includes(h[this["_roles"].n].elems, visited[index])]

(***************************************************************************)
(* What the caller can do to an array or object it holds a reference to.   *)
(***************************************************************************)
ADMIN == <<"a", "d", "m", "i", "n">>
USER == <<"u", "s", "e", "r">>
GUEST == <<"g", "u", "e", "s", "t">>
SENTINEL ==
    <<"s", "h", "o", "u", "l", "d", " ", "n", "o", "t", " ", "a", "s", "s", "i", "g", "n">>

Sentinel == Str(SENTINEL)

\* values the caller writes when it mutates
MutValues == {Str(ADMIN), Str(GUEST)}
MutNames == {"username", "roles", "foo", "meta"}

ArrayMutations(h, a) ==
    LET e == h[a].elems
    IN  {[h EXCEPT ![a].elems = Append(e, x)] : x \in {y \in MutValues : Len(e) < MaxLen}}
        \cup {[h EXCEPT ![a].elems = SubSeq(e, 1, Len(e) - 1)] : x \in {y \in {0} : Len(e) > 0}}
        \cup {[h EXCEPT ![a].elems[ix[1]] = ix[2]] : ix \in (1..Len(e)) \X MutValues}

ObjectMutations(h, a) ==
    {[h EXCEPT ![a].fields[kx[1]] = kx[2]] : kx \in MutNames \X (MutValues \cup {Absent})}

\* the heaps one mutation of cell a by the caller can produce
Mutations(h, a) ==
    (IF h[a].kind = "array" THEN ArrayMutations(h, a) ELSE ObjectMutations(h, a)) \ {h}

(***************************************************************************)
(* State.                                                                  *)
(***************************************************************************)
VARIABLES
    heap,       \* the arrays and objects, by address
    args,       \* the arguments of new User(user, roles, props)
    pc,         \* "init", then "constructed" or "failed"
    error,      \* the message of the error the constructor threw
    this,       \* the own properties of the User
    op,         \* the last operation
    query,      \* the argument of the last hasRole call
    result,     \* what the last hasRole call returned
    held,       \* the value the caller last read from the roles accessor
    mutations   \* how many mutations the caller has performed

vars == <<heap, args, pc, error, this, op, query, result, held, mutations>>

\* where the caller's objects live in the initial heap
RolesAddr == 1
MetaObjAddr == 2
MetaListAddr == 3
RecordAddr == 4

CallerHeap(roleElems, fields) ==
    << ArrayObj(roleElems),
       PlainObj([NoFields EXCEPT !["foo"] = Num(1)]),
       ArrayObj(<<Num(1)>>),
       PlainObj(fields) >>

RoleValues == {Str(ADMIN), Str(USER)}
RoleSeqs == UNION {[1..n -> RoleValues] : n \in 0..MaxLen}

Records(U, R, S, F, M) ==
    {[NoFields EXCEPT !["username"] = u, !["roles"] = r,
                      !["_username"] = s[1], !["_roles"] = s[2], !["hasRole"] = s[3],
                      !["foo"] = f, !["meta"] = m] :
        u \in U, r \in R, s \in S \X S \X S, f \in F, m \in M}

NoQuery == [literal |-> FALSE, v |-> Absent, elems |-> <<>>]
NoResult == [error |-> NoError, value |-> FALSE]

InitWith(Calls, RoleElems, Fields) ==
    /\ \E e \in RoleElems, f \in Fields : heap = CallerHeap(e, f)
    /\ args \in Calls
    /\ pc = "init"
    /\ error = NoError
    /\ this = NoFields
    /\ op = "init"
    /\ query = NoQuery
    /\ result = NoResult
    /\ held = Absent
    /\ mutations = 0

(***************************************************************************)
(* Operations.                                                             *)
(***************************************************************************)
\* new User(user, roles, props)
New ==
    /\ pc = "init"
    /\ LET r == Construct(heap, args.user, args.roles, args.props)
       IN  /\ heap' = r.h
           /\ error' = r.error
           /\ this' = r.this
           /\ pc' = IF r.error = NoError THEN "constructed" ELSE "failed"
    /\ op' = "new"
    /\ UNCHANGED <<args, query, result, held, mutations>>

\* user.hasRole(q) with q a value the caller holds
HasRoleValue(q) ==
    /\ pc = "constructed"
    /\ query' = [literal |-> FALSE, v |-> q, elems |-> <<>>]
    /\ result' = hasRole(heap, this, q)
    /\ op' = "hasRole"
    /\ UNCHANGED <<heap, args, pc, error, this, held, mutations>>

\* user.hasRole([...]) with an array literal, dropped after the call
HasRoleLiteral(elems) ==
    /\ pc = "constructed"
    /\ LET h == Append(heap, ArrayObj(elems))
       IN  /\ query' = [literal |-> TRUE, v |-> Absent, elems |-> elems]
           /\ result' = hasRole(h, this, Ref(Len(h)))
    /\ op' = "hasRole"
    /\ UNCHANGED <<heap, args, pc, error, this, held, mutations>>

\* user.roles
GetRoles ==
    /\ pc = "constructed"
    /\ held' = Get(this, "roles")
    /\ op' = "roles"
    /\ UNCHANGED <<heap, args, pc, error, this, query, result, mutations>>

Mutate(a, name) ==
    /\ pc = "constructed"
    /\ mutations < MaxMutations
    /\ heap' \in Mutations(heap, a)
    /\ mutations' = mutations + 1
    /\ op' = name
    /\ UNCHANGED <<args, pc, error, this, query, result, held>>

\* the caller changes the array it passed as roles (or as the record's roles)
MutateSuppliedRoles == Mutate(RolesAddr, "mutateSuppliedRoles")

\* the caller changes the record, or the props, it passed
MutateRecord == Mutate(RecordAddr, "mutateRecord")

\* the caller changes an object or a list that the record or props holds
MutateNested == \E a \in {MetaObjAddr, MetaListAddr} : Mutate(a, "mutateNested")

\* the caller changes the array the roles accessor returned
MutateReturnedRoles ==
    /\ held # Absent
    /\ Mutate(held.n, "mutateReturnedRoles")

(***************************************************************************)
(* Specifications.  Each draws the caller's heap and the constructor's     *)
(* arguments from a bounded set of inputs.                                 *)
(***************************************************************************)
BOB == <<"b", "o", "b">>
ALICE == <<"a", "l", "i", "c", "e">>
BAR == <<"b", "a", "r">>

Call(u, r, p) == [user |-> u, roles |-> r, props |-> p]

\* first arguments that are neither a string nor a non-array object
BadUsers ==
    {Undefined, Null, Num(0), Num(7), Bool(TRUE), Bool(FALSE), Ref(RolesAddr),
     Func(<<"f">>)}
\* second arguments, one of them an array
RolesArgs == {Ref(RolesAddr), Undefined, Null, Str(ADMIN), Num(7), Ref(RecordAddr)}
\* third arguments, one of them a non-array object
PropsArgs ==
    {Ref(RecordAddr), Undefined, Null, Ref(RolesAddr), Str(BAR), Num(7), Bool(TRUE)}

\* the life of a User: construction, reads of roles, mutations by the caller.
\* hasRole changes neither the heap nor the User, so it is left to SpecQuery
\* and its answers are compared here through the operator itself.
LifeCalls ==
    {Call(Ref(RecordAddr), Undefined, Undefined),
     Call(Str(BOB), Ref(RolesAddr), Undefined),
     Call(Str(BOB), Ref(RolesAddr), Ref(RecordAddr)),
     Call(Null, Ref(RolesAddr), Undefined)}
LifeRecords ==
    Records({Str(ALICE)}, {Ref(RolesAddr)}, {Absent},
            {Absent, Str(BAR)}, {Absent, Ref(MetaObjAddr), Ref(MetaListAddr)})

Init == InitWith(LifeCalls, RoleSeqs, LifeRecords)

Next ==
    \/ New
    \/ GetRoles
    \/ MutateSuppliedRoles
    \/ MutateRecord
    \/ MutateNested
    \/ MutateReturnedRoles

Spec == Init /\ [][Next]_vars

\* construction alone, over every shape of arguments
AnyRecords ==
    Records({Absent, Undefined, Str(ALICE), Str(<<>>), Num(7), Sentinel},
            {Absent, Ref(RolesAddr), Sentinel, Null},
            {Absent, Sentinel},
            {Absent, Str(BAR), Num(123)},
            {Absent, Ref(MetaObjAddr), Ref(MetaListAddr)})
\* as props, username and roles are extra attributes like the others
AnyProps ==
    Records({Absent, Sentinel}, {Absent, Sentinel}, {Absent, Sentinel},
            {Absent, Str(BAR), Num(123)},
            {Absent, Ref(MetaObjAddr), Ref(MetaListAddr)})
\* the record when no argument refers to it
IdleRecords ==
    Records({Str(ALICE)}, {Ref(RolesAddr)}, {Absent}, {Str(BAR)}, {Absent})

\* new User(record)
InitRecordForm ==
    InitWith({Call(Ref(RecordAddr), r, Undefined) : r \in {Undefined, Ref(RolesAddr)}},
             RoleSeqs, AnyRecords)
\* new User(username, roles, props) with props an object
InitPositionalForm ==
    InitWith({Call(u, r, Ref(RecordAddr)) :
                 u \in {Str(BOB), Str(<<>>)}, r \in {Ref(RolesAddr), Undefined}},
             RoleSeqs, AnyProps)
\* new User(username, roles, props) with any roles and any other props
InitPositionalOther ==
    InitWith({Call(u, r, p) : u \in {Str(BOB), Str(<<>>)}, r \in RolesArgs,
                              p \in PropsArgs \ {Ref(RecordAddr)}},
             RoleSeqs, IdleRecords)
\* new User(x, roles, props) with x neither a string nor a non-array object
InitBadUser ==
    InitWith({Call(u, r, p) : u \in BadUsers, r \in RolesArgs, p \in PropsArgs},
             RoleSeqs, IdleRecords)

InitNew ==
    \/ InitRecordForm
    \/ InitPositionalForm
    \/ InitPositionalOther
    \/ InitBadUser

NextNew == New

SpecNew == InitNew /\ [][NextNew]_vars

\* queries, over every roles array
QueryValues ==
    {Str(ADMIN), Str(USER), Str(GUEST), Str(<<>>), Undefined, Null, Num(0), Num(7),
     Bool(TRUE), Bool(FALSE), Ref(RecordAddr), Ref(MetaObjAddr), Func(<<"f">>),
     Ref(RolesAddr), Ref(MetaListAddr)}
QueryRoles == {Str(ADMIN), Str(USER), Str(GUEST)}
QueryLiterals == UNION {[1..n -> QueryRoles] : n \in 0..MaxLen}

QueryCalls ==
    {Call(Ref(RecordAddr), Undefined, Undefined),
     Call(Str(BOB), Ref(RolesAddr), Undefined)}
QueryRecords ==
    Records({Str(ALICE)}, {Ref(RolesAddr)}, {Absent}, {Absent}, {Absent})

InitQuery == InitWith(QueryCalls, RoleSeqs, QueryRecords)

HasRole ==
    \/ \E q \in QueryValues : HasRoleValue(q)
    \/ \E elems \in QueryLiterals : HasRoleLiteral(elems)

NextQuery ==
    \/ New
    \/ HasRole

SpecQuery == InitQuery /\ [][NextQuery]_vars

(***************************************************************************)
(* Properties.                                                             *)
(***************************************************************************)
\* the User's role list
RolesOf(h, t) == h[t["_roles"].n].elems

IsArrayRef(h, v) == v.t = "ref" /\ h[v.n].kind = "array"
IsObjectRef(h, v) == v.t = "ref" /\ h[v.n].kind = "object"
AllStrings(elems) == \A i \in 1..Len(elems) : elems[i].t = "string"

\* the roles the last query asked about, when it was a string or a sequence
AskedRoles ==
    IF query.literal THEN query.elems
    ELSE IF query.v.t = "string" THEN <<query.v>>
    ELSE IF IsArrayRef(heap, query.v) THEN heap[query.v.n].elems
    ELSE <<>>

QueryIsStringOrSequence ==
    query.literal \/ query.v.t = "string" \/ IsArrayRef(heap, query.v)

\* C1: for a query that is a string or a sequence of strings, hasRole returns
\* true exactly when some queried role equals some element of the User's
\* roles; so false for an empty query, for empty roles and for disjoint ones.
C1_HasRoleIffSomeRoleHeld ==
    (op = "hasRole" /\ QueryIsStringOrSequence /\ AllStrings(AskedRoles)) =>
        LET R == RolesOf(heap, this)
        IN  /\ result.error = NoError
            /\ result.value =
                   (\E i \in 1..Len(AskedRoles), j \in 1..Len(R) : AskedRoles[i] = R[j])
            /\ (Len(AskedRoles) = 0 \/ Len(R) = 0) => result.value = FALSE

\* a query of two roles, one held and one not, answered true
C1_Witness ==
    /\ op = "hasRole"
    /\ query.literal
    /\ Len(query.elems) = 2
    /\ Includes(RolesOf(heap, this), query.elems[2])
    /\ ~Includes(RolesOf(heap, this), query.elems[1])
    /\ result.value = TRUE

\* C2: hasRole raises no error, and for a query that is neither a string nor
\* a sequence it returns false whatever roles the User holds.
C2_HasRoleNeverThrows ==
    op = "hasRole" =>
        /\ result.error = NoError
        /\ ~QueryIsStringOrSequence => result.value = FALSE

\* null asked of a User that holds roles
C2_Witness ==
    /\ op = "hasRole"
    /\ ~query.literal
    /\ query.v = Null
    /\ Len(RolesOf(heap, this)) > 0
    /\ result = [error |-> NoError, value |-> FALSE]

\* the two forms of the call, as the caller sees them
PositionalForm == args.user.t = "string"
RecordForm == IsObjectRef(heap, args.user)

\* the username and roles that reach validation
GivenUsername ==
    IF PositionalForm THEN args.user
    ELSE IF heap[args.user.n].fields["username"] = Absent THEN Undefined
    ELSE heap[args.user.n].fields["username"]
GivenRoles ==
    IF PositionalForm THEN args.roles
    ELSE IF heap[args.user.n].fields["roles"] = Absent THEN Undefined
    ELSE heap[args.user.n].fields["roles"]

\* a working record exists: the dispatch did not fail
HasWorkingRecord ==
    \/ PositionalForm /\ IsArrayRef(heap, args.roles)
    \/ RecordForm

NonEmptyString(v) == v.t = "string" /\ Len(v.s) > 0

\* C3: a working record whose username is not a non-empty string fails with
\* the invalid username error, whatever its roles; otherwise one whose roles is
\* not a sequence fails with the invalid roles field error; so a constructed
\* User has a non-empty string username and a roles sequence.
C3_ValidationOfWorkingRecord ==
    op = "new" =>
        /\ (HasWorkingRecord /\ ~NonEmptyString(GivenUsername)) =>
               (pc = "failed" /\ error = ErrInvalidUsername)
        /\ (HasWorkingRecord /\ NonEmptyString(GivenUsername)
              /\ ~IsArrayRef(heap, GivenRoles)) =>
               (pc = "failed" /\ error = ErrInvalidRolesField)
        /\ pc = "constructed" =>
               /\ NonEmptyString(Get(this, "username"))
               /\ IsArrayRef(heap, Get(this, "roles"))

\* a record with neither a valid username nor valid roles
C3_Witness ==
    /\ op = "new"
    /\ RecordForm
    /\ GivenUsername = Num(7)
    /\ GivenRoles = Sentinel
    /\ error = ErrInvalidUsername

\* C4: a first argument that is neither a string nor a non-array object fails
\* with the invalid user data error, whatever the second and third arguments
\* are, and no User is produced.
C4_InvalidUserData ==
    (op = "new" /\ ~PositionalForm /\ ~RecordForm) =>
        /\ pc = "failed"
        /\ error = ErrInvalidUserData
        /\ this = NoFields

\* an array as first argument, with valid roles and props
C4_Witness ==
    /\ op = "new"
    /\ IsArrayRef(heap, args.user)
    /\ IsArrayRef(heap, args.roles)
    /\ IsObjectRef(heap, args.props)
    /\ error = ErrInvalidUserData

\* C5: in the positional form, a second argument that is not a sequence fails
\* with the invalid roles error, for every props and also when the username
\* is the empty string.
C5_InvalidRolesArgument ==
    (op = "new" /\ PositionalForm /\ ~IsArrayRef(heap, args.roles)) =>
        /\ pc = "failed"
        /\ error = ErrInvalidRoles

\* the empty username with roles that are not a sequence
C5_Witness ==
    /\ op = "new"
    /\ args.user = Str(<<>>)
    /\ args.roles = Null
    /\ error = ErrInvalidRoles

\* a value with what it refers to: two values are deeply equal when these agree
RECURSIVE Deep(_, _)
Deep(h, v) ==
    IF v.t # "ref"
    THEN [t |-> v.t, s |-> v.s, n |-> v.n, kind |-> "", elems |-> <<>>, fields |-> <<>>]
    ELSE [t |-> "ref", s |-> <<>>, n |-> 0, kind |-> h[v.n].kind,
          elems |-> [i \in 1..Len(h[v.n].elems) |-> Deep(h, h[v.n].elems[i])],
          fields |-> [k \in Names |-> Deep(h, h[v.n].fields[k])]]

ReservedNames == {"username", "_username", "roles", "_roles", "hasRole"}

\* the extra attributes the caller supplied: the record's fields, or those of
\* props when props is a non-array object, else none
SuppliedFields ==
    IF RecordForm THEN heap[args.user.n].fields
    ELSE IF IsObjectRef(heap, args.props) THEN heap[args.props.n].fields
    ELSE NoFields

\* the names for which the claim of suppression is made
SuppressedNames ==
    IF PositionalForm THEN ReservedNames ELSE {"_username", "_roles", "hasRole"}

ValidInputs ==
    HasWorkingRecord /\ NonEmptyString(GivenUsername) /\ IsArrayRef(heap, GivenRoles)

\* C8: a reserved name supplied as an extra attribute with the sentinel value
\* (a value that is not the username given) raises no error, and the User's
\* value for that name is not the sentinel: username and _username give the
\* validated username, roles and _roles the validated roles, and hasRole stays
\* the method.
C8_ReservedFieldSuppression ==
    (op = "new" /\ ValidInputs /\ GivenUsername # Sentinel) =>
        \A k \in SuppressedNames :
            SuppliedFields[k] = Sentinel =>
                /\ pc = "constructed"
                /\ Get(this, k) # Sentinel
                /\ k \in {"username", "_username"} => Get(this, k) = GivenUsername
                /\ k \in {"roles", "_roles"} =>
                       /\ IsArrayRef(heap, Get(this, k))
                       /\ heap[Get(this, k).n].elems = heap[GivenRoles.n].elems
                /\ k = "hasRole" => Get(this, k) = Func(<<"hasRole">>)

\* props naming all five reserved names
C8_Witness ==
    /\ op = "new"
    /\ pc = "constructed"
    /\ PositionalForm
    /\ IsObjectRef(heap, args.props)
    /\ \A k \in ReservedNames : SuppliedFields[k] = Sentinel

\* the extra attributes of the User: its own properties but the two it keeps
\* username and roles in
ExtraAttributes == {k \in Names \ {"_username", "_roles"} : this[k] # Absent}

\* C9: after a successful construction the extra attributes are exactly the
\* supplied fields whose names are not reserved, each with the supplied value;
\* absent or malformed props give a User without extra attributes, not an error.
C9_ExtraFieldPropagation ==
    (op = "new" /\ ValidInputs) =>
        /\ pc = "constructed"
        /\ ExtraAttributes = {k \in Names \ ReservedNames : SuppliedFields[k] # Absent}
        /\ \A k \in ExtraAttributes : Deep(heap, this[k]) = Deep(heap, SuppliedFields[k])

\* props with a plain value and an object, both found on the User
C9_Witness ==
    /\ op = "new"
    /\ pc = "constructed"
    /\ PositionalForm
    /\ IsObjectRef(heap, args.props)
    /\ ExtraAttributes = {"foo", "meta"}
    /\ this["foo"] = Num(123)
    /\ IsObjectRef(heap, this["meta"])

\* the answers of hasRole to every single role
Answers(h, t) == [q \in QueryRoles |-> hasRole(h, t, q).value]

\* C6: mutating the value the roles accessor returned changes neither the
\* User's roles nor any hasRole answer.
C6_ReturnedRolesAreNotInternal ==
    [][op' = "mutateReturnedRoles" =>
          /\ RolesOf(heap', this') = RolesOf(heap, this)
          /\ Answers(heap', this') = Answers(heap, this)]_vars

\* C7: the User's roles equal the supplied sequence at construction, element
\* by element, and a later mutation of the supplied sequence, or of the record
\* that holds it, changes neither the roles reported nor any hasRole answer.
C7_RolesCopiedAtConstruction ==
    [][/\ (op' = "new" /\ pc' = "constructed") =>
              RolesOf(heap', this') = heap[GivenRoles.n].elems
       /\ op' \in {"mutateSuppliedRoles", "mutateRecord"} =>
              /\ Get(this', "roles") = Get(this, "roles")
              /\ RolesOf(heap', this') = RolesOf(heap, this)
              /\ Answers(heap', this') = Answers(heap, this)]_vars

\* the caller's array no longer holds what the User reports
C7_Witness ==
    /\ op = "mutateSuppliedRoles"
    /\ Len(RolesOf(heap, this)) = MaxLen
    /\ RolesOf(heap, this)[1] = RolesOf(heap, this)[2]
    /\ heap[RolesAddr].elems # RolesOf(heap, this)

\* every attribute of the User, with what it refers to
Observable(h, t) == [k \in Names |-> Deep(h, Get(t, k))]

\* C10: the constructor leaves the caller's objects as they were, and no later
\* mutation of the record, of props, or of an object or list held in them as
\* an extra attribute changes an attribute value observable on the User.
C10_NoAliasOfCallerState ==
    [][/\ op' = "new" => \A a \in 1..Len(heap) : heap'[a] = heap[a]
       /\ op' \in {"mutateRecord", "mutateNested"} =>
              Observable(heap', this') = Observable(heap, this)]_vars

====
